---- MODULE Spec2Model ----
(***************************************************************************)
(* Model of the signal-processing core of ELE-VibraSense                   *)
(* (utils/mathUtils: processVibrationData, calculateFFT, calculateStats).  *)
(*                                                                         *)
(* Numbers.  Sample values are integers (Gals in integer units).  A time   *)
(* is a tick count: time = tick / SAMPLE_RATE, so the sample parsed from   *)
(* data line k has tick k.  Quotients are exact rationals <<num, den>> in  *)
(* lowest terms with den > 0.  A square root is kept as its radicand:      *)
(* [sqrtOf |-> q] is the non-negative real sqrt(q).                        *)
(***************************************************************************)
EXTENDS Integers, Sequences, FiniteSets, TLC

VARIABLES
    pc,               \* position of the function under analysis
    data,             \* calculateStats: the series (ProcessedDataPoint[])
    axis,             \* calculateStats: the axis (DataAxis)
    values,           \* calculateStats: Float64Array of data[i][axis]
    sumSq,            \* calculateStats: running sum of squares
    overallMaxAbs,    \* calculateStats: global max |value|
    overallMaxPoint,  \* calculateStats: the sample attaining it
    peaks,            \* calculateStats: LocalPeak[]
    pkPkValues,       \* calculateStats: pair values, in recording order
    pkPkPairs,        \* calculateStats: {val, p1, p2}[]
    stats,            \* calculateStats: the returned AnalysisStats
    rawData,          \* processVibrationData: the input (RawDataPoint[]);
                      \* App: the loaded recording, or null
    fs,               \* processVibrationData / calculateFFT: sample rate
    processed,        \* processVibrationData: the returned series
    fftInput,         \* calculateFFT: the input number[]
    real,             \* calculateFFT: Float64Array of the real parts
    imag,             \* calculateFFT: Float64Array of the imaginary parts
    fftResult,        \* calculateFFT: the returned FFTResult[]
    dsInput,          \* downsampleData: the series (ProcessedDataPoint[])
    targetCount,      \* downsampleData: the target count
    dsBuckets,        \* downsampleData: the [i, end) ranges of the outer loop
    dsResult,         \* downsampleData: the returned series
    dsAgain,          \* downsampleData: the result downsampled once more
    csvHeader,        \* parseCSV: the cells of the first line of the text
    csvLines,         \* parseCSV: the lines after the first
    csvResult,        \* parseCSV: the returned RawDataPoint[] or the error
    refAreaLeft,      \* TimeChart: start of the drag selection, or null
    refAreaRight,     \* TimeChart: end of the drag selection, or null
    mouse,            \* TimeChart: where the pointer is in its gesture
    chartCalls,       \* TimeChart: onZoom / onChartClick calls of the gesture
    filterConfig,     \* App: the FilterConfig
    dataToProcess,    \* App: the series last handed to processVibrationData
    finalProcessedData, \* App: the processed series, or null
    displayData,      \* App: the series given to the charts
    effects,          \* App: the effects whose dependencies have changed
    viewDomain,       \* App: the zoomed time range, or the empty tuple for null
    windowStart,      \* App: start of the analysis window, in ticks
    windowSize,       \* App: length of the analysis window, in seconds
    accelAxis,        \* App: the selected axis
    isAnalyzing,      \* App: an AI analysis is running
    aiResult,         \* App: the last AIAnalysisResult, or null
    aiRequest,        \* App: the record of the request in flight, or null
    aiOutcome         \* App: how the last request to the service ended

statsVars == <<data, axis, values, sumSq, overallMaxAbs, overallMaxPoint,
               peaks, pkPkValues, pkPkPairs, stats>>
procVars == <<rawData, processed>>
fftVars == <<fftInput, real, imag, fftResult>>
dsVars == <<dsInput, targetCount, dsBuckets, dsResult, dsAgain>>
csvVars == <<csvHeader, csvLines, csvResult>>
chartVars == <<refAreaLeft, refAreaRight, mouse, chartCalls>>
appVars == <<filterConfig, dataToProcess, finalProcessedData, displayData,
             effects>>
winVars == <<viewDomain, windowStart, windowSize, accelAxis, isAnalyzing, aiResult,
             aiRequest, aiOutcome>>
uiVars == <<csvVars, chartVars, appVars, winVars>>
vars == <<pc, statsVars, procVars, fs, fftVars, dsVars, uiVars>>

----------------------------------------------------------------------------
(* Bounds of the model *)

\* longest series enumerated exhaustively for calculateStats
MaxLen == 4
\* length of the alternating series with spikes (21 or more peak pairs)
LongLen == 22
\* longest input of processVibrationData
MaxRawLen == 3
\* longest input of calculateFFT over the samples -1, 0, 1
MaxFFTShort == 4
\* longest input of calculateFFT over the samples -1, 1
MaxFFTLen == 8
\* longest series given to downsampleData
MaxDsLen == 6
\* largest targetCount given to downsampleData
MaxTarget == 4
\* most lines after the header in a text given to parseCSV
MaxCsvLines == 3
\* largest time label under the pointer in TimeChart
MaxLabel == 4
\* longest recording enumerated exhaustively for the analysis window
MaxWinLen == 3

----------------------------------------------------------------------------
(* Arithmetic *)

Abs(x) == IF x < 0 THEN -x ELSE x

Min(a, b) == IF a < b THEN a ELSE b

RECURSIVE GCD(_, _)
GCD(a, b) == IF b = 0 THEN a ELSE GCD(b, a % b)

\* the rational n/d (d # 0) in lowest terms with a positive denominator
Rat(n, d) ==
    LET g == GCD(Abs(n), Abs(d))
        s == IF d < 0 THEN -1 ELSE 1
    IN  <<(s * n) \div g, (s * d) \div g>>

RInt(k) == <<k, 1>>
\* sums over the least common denominator and products with the common
\* factors cancelled first, which keeps the intermediate integers small
RAdd(p, q) ==
    LET g == GCD(p[2], q[2])
    IN  Rat(p[1] * (q[2] \div g) + q[1] * (p[2] \div g), (p[2] \div g) * q[2])
RNeg(p) == <<-p[1], p[2]>>
RSub(p, q) == RAdd(p, RNeg(q))
RMul(p, q) ==
    LET g1 == GCD(Abs(p[1]), q[2])
        g2 == GCD(Abs(q[1]), p[2])
    IN  Rat((p[1] \div g1) * (q[1] \div g2), (p[2] \div g2) * (q[2] \div g1))
RInv(q) == IF q[1] < 0 THEN <<-q[2], -q[1]>> ELSE <<q[2], q[1]>>
RDiv(p, q) == RMul(p, RInv(q))
RLeq(p, q) == p[1] * q[2] <= q[1] * p[2]
RZero == RInt(0)

\* Math.sqrt of a non-negative rational, kept as its radicand
Sqrt(q) == [sqrtOf |-> q]

----------------------------------------------------------------------------
(* Values and inputs *)

\* sample values of the exhaustively enumerated series
Vals == {-2, -1, 0, 1, 2}

\* value held by the axes a series is not analysed on
Decoy == 3

AccelAxes == {"ax", "ay", "az"}
DataAxis == {"ax", "ay", "az", "vz", "sz"}

\* const SAMPLE_RATE = 1600
SAMPLE_RATE == 1600

\* sample rates handed to calculateFFT
SampleRates == {4, 400, SAMPLE_RATE}

\* sample rates handed to processVibrationData; the denominators of sz grow
\* with the square of the rate and have to stay below 2^31
ProcessRates == {4, 400}

\* tick of the first sample of a series: a whole recording, or a window
\* slice that starts later in the recording
StartTicks == {0, 5}

\* a property that is missing or undefined, and the null reference
Undefined == [undefined |-> TRUE]
Null == [null |-> TRUE]

\* s[i] with the source's 0-based index
At(s, i) == s[i + 1]

SeqsUpTo(S, n) == UNION {[1..k -> S] : k \in 0..n}

\* the series whose `a` axis holds vs, sampled from tick t0 on
MkSeries(vs, a, t0) ==
    [i \in 1..Len(vs) |->
        [f \in {"time"} \cup DataAxis |->
            IF f = "time" THEN t0 + i - 1
            ELSE IF f = a THEN vs[i] ELSE Decoy]]

\* alternating unit square wave with at most two spikes of amplitude 2
SpikeSeries ==
    {[i \in 1..LongLen |->
        (IF i % 2 = 1 THEN 1 ELSE -1) * (IF i \in S THEN 2 ELSE 1)] :
     S \in {T \in SUBSET (1..LongLen) : Cardinality(T) <= 2}}

StatsSeries == SeqsUpTo(Vals, MaxLen) \cup SpikeSeries

----------------------------------------------------------------------------
(* calculateStats *)

ZeroStats ==
    [peakVal |-> 0, peakTime |-> 0, rms |-> 0, pkPk |-> 0, zeroPk |-> 0,
     a95 |-> 0, max0PkPoint |-> Undefined, maxPkPkPair |-> Undefined]

\* variant: the running maximum keeps the signed value
RECURSIVE ExtractLoopSigned(_, _, _, _)
ExtractLoopSigned(d, a, i, acc) ==
    IF i >= Len(d) THEN acc
    ELSE LET val == At(d, i)[a]
             bigger == Abs(val) > acc.overallMaxAbs
         IN  ExtractLoopSigned(d, a, i + 1,
                [values |-> Append(acc.values, val),
                 sumSq |-> acc.sumSq + val * val,
                 overallMaxAbs |-> IF bigger THEN val ELSE acc.overallMaxAbs,
                 overallMaxPoint |->
                    IF bigger THEN [time |-> At(d, i).time, value |-> val]
                    ELSE acc.overallMaxPoint])

\* 1. Extract Series & RMS: the loop over i = 0 .. data.length - 1
RECURSIVE ExtractLoop(_, _, _, _)
ExtractLoop(d, a, i, acc) ==
    IF i >= Len(d) THEN acc
    ELSE LET val == At(d, i)[a]
             bigger == Abs(val) > acc.overallMaxAbs
         IN  ExtractLoop(d, a, i + 1,
                [values |-> Append(acc.values, val),
                 sumSq |-> acc.sumSq + val * val,
                 overallMaxAbs |->
                    IF bigger THEN Abs(val) ELSE acc.overallMaxAbs,
                 overallMaxPoint |->
                    IF bigger THEN [time |-> At(d, i).time, value |-> val]
                    ELSE acc.overallMaxPoint])

ExtractSeries(d, a) ==
    ExtractLoop(d, a, 0,
        [values |-> <<>>, sumSq |-> 0, overallMaxAbs |-> 0,
         overallMaxPoint |-> [time |-> 0, value |-> 0]])

\* min and max of the fallback for vz and sz; Infinity never survives a
\* non-empty series, so the scan starts from the first value
\* variant: no scan, the starting value is returned
MinOfFirst(vs, i, m) == m

RECURSIVE MinOf(_, _, _)
MinOf(vs, i, m) ==
    IF i >= Len(vs) THEN m
    ELSE MinOf(vs, i + 1, IF At(vs, i) < m THEN At(vs, i) ELSE m)

RECURSIVE MaxOf(_, _, _)
MaxOf(vs, i, m) ==
    IF i >= Len(vs) THEN m
    ELSE MaxOf(vs, i + 1, IF At(vs, i) > m THEN At(vs, i) ELSE m)

\* the inner loop of findLocalPeak over i = startIdx .. endIdx - 1
RECURSIVE LocalPeakLoop(_, _, _, _)
LocalPeakLoop(vs, i, endIdx, acc) ==
    IF i >= endIdx THEN acc
    ELSE LocalPeakLoop(vs, i + 1, endIdx,
            IF Abs(At(vs, i)) > acc.maxAbs
            THEN [maxAbs |-> Abs(At(vs, i)), bestIdx |-> i]
            ELSE acc)

findLocalPeak(vs, d, startIdx, endIdx) ==
    IF startIdx >= endIdx THEN Null
    ELSE LET r == LocalPeakLoop(vs, startIdx, endIdx,
                                [maxAbs |-> -1, bestIdx |-> -1])
         IN  IF r.bestIdx = -1 THEN Null
             ELSE [value |-> At(vs, r.bestIdx), abs |-> r.maxAbs,
                   time |-> At(d, r.bestIdx).time, idx |-> r.bestIdx]

\* variant: a strict sign change only, so a sample of exactly 0 is in
\* neither class
IsZeroCrossingStrict(v1, v2) == (v1 > 0 /\ v2 < 0) \/ (v1 < 0 /\ v2 > 0)

\* Zero Crossing detected (sign change or hit 0)
IsZeroCrossing(v1, v2) == (v1 >= 0 /\ v2 < 0) \/ (v1 < 0 /\ v2 >= 0)

\* the loop over i = 0 .. data.length - 2 that closes a region at each
\* zero crossing
RECURSIVE CrossingLoop(_, _, _, _)
CrossingLoop(vs, d, i, acc) ==
    IF i >= Len(d) - 1 THEN acc
    ELSE IF IsZeroCrossing(At(vs, i), At(vs, i + 1))
         THEN LET peak == findLocalPeak(vs, d, acc.lastZC, i + 1)
              IN  CrossingLoop(vs, d, i + 1,
                     [lastZC |-> i + 1,
                      peaks |-> IF peak # Null THEN Append(acc.peaks, peak)
                                ELSE acc.peaks])
         ELSE CrossingLoop(vs, d, i + 1, acc)

\* 2. Find Zero Crossings and Peaks, the last segment included
FindPeaks(vs, d) ==
    LET r == CrossingLoop(vs, d, 0, [lastZC |-> 0, peaks |-> <<>>])
        lastPeak == findLocalPeak(vs, d, r.lastZC, Len(d))
    IN  IF lastPeak # Null THEN Append(r.peaks, lastPeak) ELSE r.peaks

\* the sign test of the pairing loop
OppositeSigns(p1, p2) ==
    (p1.value > 0 /\ p2.value < 0) \/ (p1.value < 0 /\ p2.value > 0)

\* 3. Calculate Pk-Pk Values: the loop over i = 0 .. peaks.length - 2
RECURSIVE PairLoop(_, _, _)
PairLoop(pks, i, acc) ==
    IF i >= Len(pks) - 1 THEN acc
    ELSE LET p1 == At(pks, i)
             p2 == At(pks, i + 1)
             ppVal == p1.abs + p2.abs
         IN  PairLoop(pks, i + 1,
                IF OppositeSigns(p1, p2)
                THEN [pkPkValues |-> Append(acc.pkPkValues, ppVal),
                      pkPkPairs |-> Append(acc.pkPkPairs,
                                      [val |-> ppVal, p1 |-> p1, p2 |-> p2])]
                ELSE acc)

PairPeaks(pks) == PairLoop(pks, 0, [pkPkValues |-> <<>>, pkPkPairs |-> <<>>])

\* variant: the comparison of the two times inverted
OrderByTimeInverted(item) ==
    IF item.p1.time > item.p2.time
    THEN <<[time |-> item.p1.time, value |-> item.p1.value],
           [time |-> item.p2.time, value |-> item.p2.value]>>
    ELSE <<[time |-> item.p2.time, value |-> item.p2.value],
           [time |-> item.p1.time, value |-> item.p1.value]>>

\* the two points of a pair, ordered by time
OrderByTime(item) ==
    IF item.p1.time < item.p2.time
    THEN <<[time |-> item.p1.time, value |-> item.p1.value],
           [time |-> item.p2.time, value |-> item.p2.value]>>
    ELSE <<[time |-> item.p2.time, value |-> item.p2.value],
           [time |-> item.p1.time, value |-> item.p1.value]>>

\* 4. Max Pk-Pk: the loop over pkPkPairs
RECURSIVE MaxPairLoop(_, _, _)
MaxPairLoop(pairs, i, acc) ==
    IF i >= Len(pairs) THEN acc
    ELSE MaxPairLoop(pairs, i + 1,
            IF At(pairs, i).val > acc.maxPkPk
            THEN [maxPkPk |-> At(pairs, i).val,
                  maxPkPkPair |-> OrderByTime(At(pairs, i))]
            ELSE acc)

\* variant: the comparison with the running maximum left out, so the last
\* pair wins
MaxPkPkLast(pairs) ==
    IF Len(pairs) = 0 THEN [maxPkPk |-> 0, maxPkPkPair |-> Undefined]
    ELSE [maxPkPk |-> At(pairs, Len(pairs) - 1).val,
          maxPkPkPair |-> OrderByTime(At(pairs, Len(pairs) - 1))]

MaxPkPk(pairs) ==
    MaxPairLoop(pairs, 0, [maxPkPk |-> 0, maxPkPkPair |-> Undefined])

\* insertion of x into the ascending sequence s
RECURSIVE InsertAsc(_, _)
InsertAsc(s, x) ==
    IF s = <<>> THEN <<x>>
    ELSE IF x < Head(s) THEN <<x>> \o s
         ELSE <<Head(s)>> \o InsertAsc(Tail(s), x)

\* variant: the list is left in recording order
SortNone(s) == s

\* pkPkValues.sort((a, b) => a - b)
RECURSIVE SortAsc(_)
SortAsc(s) == IF s = <<>> THEN <<>> ELSE InsertAsc(SortAsc(Tail(s)), Head(s))

\* Math.floor(pkPkValues.length * 0.95); the double product rounds to the
\* exact 19 * count / 20 whenever that is an integer and is otherwise at
\* least 1/20 away from one, so the floor is the exact one
Index95(count) == (count * 95) \div 100

\* 5. A95 Pk-Pk; an index outside the array reads as undefined
A95(pkVals) ==
    LET sorted == SortAsc(pkVals)
        index95 == Index95(Len(pkVals))
        k == Min(index95, Len(pkVals) - 1)
    IN  IF k \in 0..(Len(sorted) - 1) THEN At(sorted, k) ELSE Undefined

\* variant: a95 falls back to the maximum absolute value, as it does in the
\* return for vz and sz
NoPairsStatsA95Max(maxAbs, point, r) ==
    [peakVal |-> maxAbs, peakTime |-> point.time, rms |-> r,
     pkPk |-> 0, zeroPk |-> maxAbs, a95 |-> maxAbs,
     max0PkPoint |-> Undefined, maxPkPkPair |-> Undefined]

\* the return of the fallback for a signal without peak pairs
NoPairsStats(maxAbs, point, r) ==
    [peakVal |-> maxAbs, peakTime |-> point.time, rms |-> r,
     pkPk |-> 0, zeroPk |-> maxAbs, a95 |-> 0,
     max0PkPoint |-> Undefined, maxPkPkPair |-> Undefined]

----------------------------------------------------------------------------
(* calculateStats, section by section *)

NoProcess == rawData = <<>> /\ processed = <<>>
NoFFT == fftInput = <<>> /\ real = <<>> /\ imag = <<>> /\ fftResult = <<>>
\* the initial value of the FilterConfig state
DefaultFilter ==
    [enabled |-> FALSE, highPassFreq |-> 0, lowPassFreq |-> 30,
     isStandardWeighting |-> FALSE, targetAxes |-> "all"]

NoCSV == csvHeader = <<>> /\ csvLines = <<>> /\ csvResult = <<>>
\* null where the value is a time or null; no time is negative
NoTime == -1

NoChart ==
    /\ refAreaLeft = NoTime
    /\ refAreaRight = NoTime
    /\ mouse = "up"
    /\ chartCalls = <<>>
\* a state that is an array or null: the empty tuple is null and the tuple
\* of one array is that array
None == <<>>
Some(x) == <<x>>

NoApp ==
    /\ filterConfig = DefaultFilter
    /\ dataToProcess = None
    /\ finalProcessedData = None
    /\ displayData = <<>>
    /\ effects = {}
NoWindow ==
    /\ viewDomain = <<>>
    /\ windowStart = 0
    /\ windowSize = 4
    /\ accelAxis = "az"
    /\ isAnalyzing = FALSE
    /\ aiResult = Null
    /\ aiRequest = Null
    /\ aiOutcome = "none"
NoUI == NoCSV /\ NoChart /\ NoApp /\ NoWindow

NoDownsample ==
    /\ dsInput = <<>>
    /\ targetCount = 0
    /\ dsBuckets = <<>>
    /\ dsResult = <<>>
    /\ dsAgain = <<>>

InitStats ==
    /\ pc = "stats"
    /\ axis \in DataAxis
    /\ \E vs \in StatsSeries, t0 \in StartTicks : data = MkSeries(vs, axis, t0)
    /\ values = <<>>
    /\ sumSq = 0
    /\ overallMaxAbs = 0
    /\ overallMaxPoint = [time |-> 0, value |-> 0]
    /\ peaks = <<>>
    /\ pkPkValues = <<>>
    /\ pkPkPairs = <<>>
    /\ stats = Undefined
    /\ fs = SAMPLE_RATE
    /\ NoProcess
    /\ NoFFT
    /\ NoDownsample
    /\ NoUI

\* if (data.length === 0) return the all-zero stats
StatsEmpty ==
    /\ pc = "stats"
    /\ Len(data) = 0
    /\ stats' = ZeroStats
    /\ pc' = "statsDone"
    /\ UNCHANGED <<data, axis, values, sumSq, overallMaxAbs, overallMaxPoint,
                   peaks, pkPkValues, pkPkPairs, procVars, fs, fftVars, dsVars, uiVars>>

\* 1. Extract Series & RMS
StatsExtract ==
    /\ pc = "stats"
    /\ Len(data) # 0
    /\ LET r == ExtractSeries(data, axis)
       IN  /\ values' = r.values
           /\ sumSq' = r.sumSq
           /\ overallMaxAbs' = r.overallMaxAbs
           /\ overallMaxPoint' = r.overallMaxPoint
    /\ pc' = "extracted"
    /\ UNCHANGED <<data, axis, peaks, pkPkValues, pkPkPairs, stats,
                   procVars, fs, fftVars, dsVars, uiVars>>

rms == Sqrt(Rat(sumSq, Len(data)))

\* if (axis === 'vz' || axis === 'sz'): simple Max-Min
StatsKinematic ==
    /\ pc = "extracted"
    /\ axis \in {"vz", "sz"}
    /\ LET min == MinOf(values, 0, At(values, 0))
           max == MaxOf(values, 0, At(values, 0))
       IN  stats' = [peakVal |-> overallMaxAbs,
                     peakTime |-> overallMaxPoint.time,
                     rms |-> rms,
                     pkPk |-> max - min,
                     zeroPk |-> overallMaxAbs,
                     a95 |-> overallMaxAbs,
                     max0PkPoint |-> overallMaxPoint,
                     maxPkPkPair |-> Undefined]
    /\ pc' = "statsDone"
    /\ UNCHANGED <<data, axis, values, sumSq, overallMaxAbs, overallMaxPoint,
                   peaks, pkPkValues, pkPkPairs, procVars, fs, fftVars, dsVars, uiVars>>

\* 2. Find Zero Crossings and Peaks
StatsFindPeaks ==
    /\ pc = "extracted"
    /\ axis \notin {"vz", "sz"}
    /\ peaks' = FindPeaks(values, data)
    /\ pc' = "peaks"
    /\ UNCHANGED <<data, axis, values, sumSq, overallMaxAbs, overallMaxPoint,
                   pkPkValues, pkPkPairs, stats, procVars, fs, fftVars, dsVars, uiVars>>

\* 3. Calculate Pk-Pk Values (Adjacent peaks)
StatsPair ==
    /\ pc = "peaks"
    /\ LET r == PairPeaks(peaks)
       IN  /\ pkPkValues' = r.pkPkValues
           /\ pkPkPairs' = r.pkPkPairs
    /\ pc' = "paired"
    /\ UNCHANGED <<data, axis, values, sumSq, overallMaxAbs, overallMaxPoint,
                   peaks, stats, procVars, fs, fftVars, dsVars, uiVars>>

\* if (pkPkValues.length === 0): fallback without pairs
StatsNoPairs ==
    /\ pc = "paired"
    /\ Len(pkPkValues) = 0
    /\ stats' = NoPairsStats(overallMaxAbs, overallMaxPoint, rms)
    /\ pc' = "statsDone"
    /\ UNCHANGED <<data, axis, values, sumSq, overallMaxAbs, overallMaxPoint,
                   peaks, pkPkValues, pkPkPairs, procVars, fs, fftVars, dsVars, uiVars>>

\* 4. Max Pk-Pk, 5. A95 Pk-Pk (sorts pkPkValues in place) and the return
StatsFinish ==
    /\ pc = "paired"
    /\ Len(pkPkValues) # 0
    /\ pkPkValues' = SortAsc(pkPkValues)
    /\ LET m == MaxPkPk(pkPkPairs)
       IN  stats' = [peakVal |-> overallMaxAbs,
                     peakTime |-> overallMaxPoint.time,
                     rms |-> rms,
                     pkPk |-> m.maxPkPk,
                     zeroPk |-> overallMaxAbs,
                     a95 |-> A95(pkPkValues),
                     max0PkPoint |-> overallMaxPoint,
                     maxPkPkPair |-> m.maxPkPkPair]
    /\ pc' = "statsDone"
    /\ UNCHANGED <<data, axis, values, sumSq, overallMaxAbs, overallMaxPoint,
                   peaks, pkPkPairs, procVars, fs, fftVars, dsVars, uiVars>>

NextStats ==
    \/ StatsEmpty
    \/ StatsExtract
    \/ StatsKinematic
    \/ StatsFindPeaks
    \/ StatsPair
    \/ StatsNoPairs
    \/ StatsFinish

----------------------------------------------------------------------------
(* processVibrationData *)

RawVals == [ax : {0, 1}, ay : {0, 1}, az : {-1, 0, 2}]

\* a parsed recording: the sample of data line i has tick i - 1
MkRaw(ss) ==
    [i \in 1..Len(ss) |->
        [time |-> i - 1, ax |-> ss[i].ax, ay |-> ss[i].ay, az |-> ss[i].az]]

\* 1. Calculate Means: the sum of one axis over i = 0 .. n - 1
RECURSIVE SumAxis(_, _, _, _)
SumAxis(raw, a, i, sum) ==
    IF i >= Len(raw) THEN sum ELSE SumAxis(raw, a, i + 1, sum + At(raw, i)[a])

\* variant: the sum is divided by n - 1 (by 1 for a single sample)
MeanOverNMinus1(raw, a) ==
    RDiv(RInt(SumAxis(raw, a, 0, 0)),
         RInt(IF Len(raw) > 1 THEN Len(raw) - 1 ELSE 1))

Mean(raw, a) == RDiv(RInt(SumAxis(raw, a, 0, 0)), RInt(Len(raw)))

\* 2. Detrended Z-Acceleration in m/s^2 (divide by 100)
AzMps2(raw, azMean) ==
    [i \in 1..Len(raw) |-> RDiv(RSub(RInt(raw[i].az), azMean), RInt(100))]

\* 3. Calculate Velocity (VZ): vz[0] = 0, then the loop over i = 1 .. n - 1
RECURSIVE VelocityLoop(_, _, _, _)
VelocityLoop(azMps2, dt, i, vz) ==
    IF i >= Len(azMps2) THEN vz
    ELSE VelocityLoop(azMps2, dt, i + 1,
            Append(vz, RAdd(At(vz, i - 1),
                RMul(RMul(RAdd(At(azMps2, i - 1), At(azMps2, i)), Rat(1, 2)),
                     dt))))

\* variant: the first sample is integrated too, as a rectangle from rest
VelocityFromFirst(azMps2, dt) ==
    VelocityLoop(azMps2, dt, 1, <<RMul(At(azMps2, 0), dt)>>)

Velocity(azMps2, dt) == VelocityLoop(azMps2, dt, 1, <<RZero>>)

\* 4. Calculate Displacement (SZ): sz[0] = 0, then the loop over i = 1 .. n - 1
RECURSIVE DisplacementLoop(_, _, _, _)
DisplacementLoop(vz, dt, i, sz) ==
    IF i >= Len(vz) THEN sz
    ELSE DisplacementLoop(vz, dt, i + 1,
            Append(sz, RAdd(At(sz, i - 1),
                RMul(RMul(RAdd(At(vz, i - 1), At(vz, i)), Rat(1, 2)), dt))))

\* variant: rectangle rule, each step adds vz[i] * dt
RECURSIVE RectangleLoop(_, _, _, _)
RectangleLoop(vz, dt, i, sz) ==
    IF i >= Len(vz) THEN sz
    ELSE RectangleLoop(vz, dt, i + 1,
            Append(sz, RAdd(At(sz, i - 1), RMul(At(vz, i), dt))))

DisplacementRectangle(vz, dt) == RectangleLoop(vz, dt, 1, <<RZero>>)

Displacement(vz, dt) == DisplacementLoop(vz, dt, 1, <<RZero>>)

processVibrationData(raw, rate) ==
    IF Len(raw) = 0 THEN <<>>
    ELSE LET axMean == Mean(raw, "ax")
             ayMean == Mean(raw, "ay")
             azMean == Mean(raw, "az")
             dt == RDiv(RInt(1), RInt(rate))
             azMps2 == AzMps2(raw, azMean)
             vz == Velocity(azMps2, dt)
             sz == Displacement(vz, dt)
         IN  \* 5. Assemble Result
             [i \in 1..Len(raw) |->
                [time |-> raw[i].time,
                 ax |-> RSub(RInt(raw[i].ax), axMean),
                 ay |-> RSub(RInt(raw[i].ay), ayMean),
                 az |-> RSub(RInt(raw[i].az), azMean),
                 vz |-> vz[i],
                 sz |-> sz[i]]]

NoStats ==
    /\ data = <<>>
    /\ axis = "az"
    /\ values = <<>>
    /\ sumSq = 0
    /\ overallMaxAbs = 0
    /\ overallMaxPoint = [time |-> 0, value |-> 0]
    /\ peaks = <<>>
    /\ pkPkValues = <<>>
    /\ pkPkPairs = <<>>
    /\ stats = Undefined

InitProcess ==
    /\ pc = "process"
    /\ \E ss \in SeqsUpTo(RawVals, MaxRawLen) : rawData = MkRaw(ss)
    /\ fs \in ProcessRates
    /\ processed = <<>>
    /\ NoStats
    /\ NoFFT
    /\ NoDownsample
    /\ NoUI

Process ==
    /\ pc = "process"
    /\ processed' = processVibrationData(rawData, fs)
    /\ pc' = "processDone"
    /\ UNCHANGED <<statsVars, rawData, fs, fftVars, dsVars, uiVars>>

----------------------------------------------------------------------------
(* calculateFFT *)

\* The transform of integer samples of a length N <= 8 lies in Q(sqrt 2):
\* <<a, b, d>> is the real number (a + b * sqrt(2)) / d, in lowest terms
\* with d > 0.
Q2(a, b, d) ==
    LET g == GCD(GCD(Abs(a), Abs(b)), d)
    IN  <<a \div g, b \div g, d \div g>>

QInt(k) == <<k, 0, 1>>
QAdd(x, y) == Q2(x[1] * y[3] + y[1] * x[3], x[2] * y[3] + y[2] * x[3], x[3] * y[3])
QSub(x, y) == Q2(x[1] * y[3] - y[1] * x[3], x[2] * y[3] - y[2] * x[3], x[3] * y[3])
QMul(x, y) == Q2(x[1] * y[1] + 2 * x[2] * y[2], x[1] * y[2] + x[2] * y[1], x[3] * y[3])
QNeg(x) == <<-x[1], -x[2], x[3]>>

\* Math.cos(Math.PI / m2) and Math.sin(Math.PI / m2) for m2 = 1, 2, 4
Cos(m2) == CASE m2 = 1 -> QInt(-1) [] m2 = 2 -> QInt(0) [] m2 = 4 -> <<0, 1, 2>>
Sin(m2) == CASE m2 = 1 -> QInt(0) [] m2 = 2 -> QInt(1) [] m2 = 4 -> <<0, 1, 2>>

FFTVals == {-1, 0, 1}
FFTSigns == {-1, 1}

\* every short series, and the series without zeros up to the length of the
\* 8-point transform
FFTInputs == SeqsUpTo(FFTVals, MaxFFTShort) \cup SeqsUpTo(FFTSigns, MaxFFTLen)

RECURSIVE Pow2(_)
Pow2(k) == IF k = 0 THEN 1 ELSE 2 * Pow2(k - 1)

\* Math.floor(Math.log2(n)) for n >= 1
RECURSIVE FloorLog2(_)
FloorLog2(n) == IF n < 2 THEN 0 ELSE 1 + FloorLog2(n \div 2)

\* the loop of reverseBits: y = (y << 1) | (x & 1); x >>= 1
RECURSIVE ReverseLoop(_, _, _, _)
ReverseLoop(x, y, i, bits) ==
    IF i >= bits THEN y ELSE ReverseLoop(x \div 2, (2 * y) + (x % 2), i + 1, bits)

\* variant: no reversal, the index is returned as it is
reverseBitsNone(x, bits) == x

reverseBits(x, bits) == ReverseLoop(x, 0, 0, bits)

Swap(s, i, j) == [s EXCEPT ![i + 1] = s[j + 1], ![j + 1] = s[i + 1]]

\* the bit-reversal permutation: the loop over i = 0 .. N - 1
RECURSIVE PermuteLoop(_, _, _, _)
PermuteLoop(arr, i, bits, N) ==
    IF i >= N THEN arr
    ELSE LET rev == reverseBits(i, bits)
         IN  PermuteLoop(
                IF rev > i
                THEN [real |-> Swap(arr.real, i, rev),
                      imag |-> Swap(arr.imag, i, rev)]
                ELSE arr,
                i + 1, bits, N)

\* the butterflies of one block: the loop over j = 0 .. m2 - 1
RECURSIVE ButterflyLoop(_, _, _, _, _, _)
ButterflyLoop(arr, k, j, m2, w, wm) ==
    IF j >= m2 THEN arr
    ELSE LET lo == k + j
             hi == k + j + m2
             tReal == QSub(QMul(w.real, At(arr.real, hi)),
                           QMul(w.imag, At(arr.imag, hi)))
             tImag == QAdd(QMul(w.real, At(arr.imag, hi)),
                           QMul(w.imag, At(arr.real, hi)))
             uReal == At(arr.real, lo)
             uImag == At(arr.imag, lo)
             next ==
                [real |-> [arr.real EXCEPT ![lo + 1] = QAdd(uReal, tReal),
                                           ![hi + 1] = QSub(uReal, tReal)],
                 imag |-> [arr.imag EXCEPT ![lo + 1] = QAdd(uImag, tImag),
                                           ![hi + 1] = QSub(uImag, tImag)]]
             wNext ==
                [real |-> QSub(QMul(w.real, wm.real), QMul(w.imag, wm.imag)),
                 imag |-> QAdd(QMul(w.real, wm.imag), QMul(w.imag, wm.real))]
         IN  ButterflyLoop(next, k, j + 1, m2, wNext, wm)

\* the blocks of one stage: the loop over k = 0, m, 2m, ... < N
RECURSIVE BlockLoop(_, _, _, _, _, _)
BlockLoop(arr, k, m, m2, wm, N) ==
    IF k >= N THEN arr
    ELSE BlockLoop(
            ButterflyLoop(arr, k, 0, m2, [real |-> QInt(1), imag |-> QInt(0)], wm),
            k + m, m, m2, wm, N)

\* the stages: the loop over s = 1 .. bits
RECURSIVE StageLoop(_, _, _, _)
StageLoop(arr, s, bits, N) ==
    IF s > bits THEN arr
    ELSE LET m == Pow2(s)
             m2 == m \div 2
             wm == [real |-> Cos(m2), imag |-> QNeg(Sin(m2))]
         IN  StageLoop(BlockLoop(arr, 0, m, m2, wm, N), s + 1, bits, N)

\* variant: the lower edge of the band at 0, which lets the DC bin through
InBandFromZero(freq) == RLeq(RInt(0), freq) /\ RLeq(freq, RInt(200))

\* variant: the upper edge of the band is not tested
InBandNoUpper(freq) == RLeq(RInt(1), freq)

\* freq >= 1 && freq <= 200
InBand(freq) == RLeq(RInt(1), freq) /\ RLeq(freq, RInt(200))

\* Math.sqrt(re * re + im * im) / N, doubled for i > 0
Magnitude(re, im, i, N) ==
    LET sq == QAdd(QMul(re, re), QMul(im, im))
        scale == IF i > 0 THEN <<4, 0, N * N>> ELSE <<1, 0, N * N>>
    IN  Sqrt(QMul(sq, scale))

\* the output loop over i = 0, 1, ... < N / 2
RECURSIVE ResultLoop(_, _, _, _, _)
ResultLoop(arr, i, rate, N, results) ==
    IF 2 * i >= N THEN results
    ELSE LET freq == Rat(i * rate, N)
         IN  ResultLoop(arr, i + 1, rate, N,
                IF InBand(freq)
                THEN Append(results,
                        [frequency |-> freq,
                         magnitude |->
                            Magnitude(At(arr.real, i), At(arr.imag, i), i, N)])
                ELSE results)

\* variant: the last N samples are loaded instead of the first N
LoadLast(input, N) ==
    [real |-> [i \in 1..N |-> QInt(input[Len(input) - N + i])],
     imag |-> [i \in 1..N |-> QInt(0)]]

\* real[i] = data[i]; imag[i] = 0 for i = 0 .. N - 1
LoadInput(input, N) ==
    [real |-> [i \in 1..N |-> QInt(input[i])],
     imag |-> [i \in 1..N |-> QInt(0)]]

\* the arrays real and imag after the butterfly stages, for n >= 1
Transform(input) ==
    LET p == FloorLog2(Len(input))
        N == Pow2(p)
        bits == p
        permuted == PermuteLoop(LoadInput(input, N), 0, bits, N)
    IN  StageLoop(permuted, 1, bits, N)

calculateFFT(input, rate) ==
    IF Len(input) = 0 THEN <<>>
    ELSE LET N == Pow2(FloorLog2(Len(input)))
         IN  ResultLoop(Transform(input), 0, rate, N, <<>>)

InitFFT ==
    /\ pc = "fft"
    /\ fftInput \in FFTInputs
    /\ fs \in SampleRates
    /\ real = <<>>
    /\ imag = <<>>
    /\ fftResult = <<>>
    /\ NoStats
    /\ NoProcess
    /\ NoDownsample
    /\ NoUI

\* if (n === 0) return []
FFTEmpty ==
    /\ pc = "fft"
    /\ Len(fftInput) = 0
    /\ fftResult' = calculateFFT(fftInput, fs)
    /\ pc' = "fftDone"
    /\ UNCHANGED <<statsVars, procVars, fs, fftInput, real, imag, dsVars, uiVars>>

\* the load, the bit-reversal permutation and the butterfly stages
FFTTransform ==
    /\ pc = "fft"
    /\ Len(fftInput) # 0
    /\ LET arr == Transform(fftInput)
       IN  real' = arr.real /\ imag' = arr.imag
    /\ pc' = "transformed"
    /\ UNCHANGED <<statsVars, procVars, fs, fftInput, fftResult, dsVars, uiVars>>

\* the output loop and the return
FFTOutput ==
    /\ pc = "transformed"
    /\ fftResult' = ResultLoop([real |-> real, imag |-> imag], 0, fs,
                               Len(real), <<>>)
    /\ pc' = "fftDone"
    /\ UNCHANGED <<statsVars, procVars, fs, fftInput, real, imag, dsVars, uiVars>>

NextFFT == FFTEmpty \/ FFTTransform \/ FFTOutput

----------------------------------------------------------------------------
(* downsampleData *)

\* the (ax, ay, az) of the samples: at rest, a unit of ax, a spike on az
DsTriples == {<<0, 0, 0>>, <<1, 0, 0>>, <<0, -1, 2>>}

\* the series with the given accelerations, sampled from tick 0 on
MkPoints(ts) ==
    [i \in 1..Len(ts) |->
        [time |-> i - 1, ax |-> ts[i][1], ay |-> ts[i][2], az |-> ts[i][3],
         vz |-> 0, sz |-> 0]]

DsInputs == {MkPoints(ts) : ts \in SeqsUpTo(DsTriples, MaxDsLen)}

\* variant: a series as long as the target is decimated as well
FitsTargetStrict(len, target) == len < target

\* if (len <= targetCount) return data
FitsTarget(len, target) == len <= target

\* Math.floor(len / buckets); for buckets = 0 the quotient is Infinity, which
\* the loop uses like any step of at least len: end = len and i + step >= len
Step(len, buckets) == IF buckets = 0 THEN len ELSE len \div buckets

Max(a, b) == IF a > b THEN a ELSE b

\* Math.max(Math.abs(ax), Math.abs(ay), Math.abs(az)) of data[j]
MaxAbsOf(d, j) ==
    Max(Max(Abs(At(d, j).ax), Abs(At(d, j).ay)), Abs(At(d, j).az))

\* variant: a later sample replaces an equal earlier one
RECURSIVE PeakLoopLast(_, _, _, _, _)
PeakLoopLast(d, j, end, maxAbs, maxIdx) ==
    IF j >= end THEN maxIdx
    ELSE IF MaxAbsOf(d, j) >= maxAbs
         THEN PeakLoopLast(d, j + 1, end, MaxAbsOf(d, j), j)
         ELSE PeakLoopLast(d, j + 1, end, maxAbs, maxIdx)

\* for (j = i; j < end; j++) if (val > maxAbs) { maxAbs = val; maxIdx = j }
RECURSIVE PeakLoop(_, _, _, _, _)
PeakLoop(d, j, end, maxAbs, maxIdx) ==
    IF j >= end THEN maxIdx
    ELSE IF MaxAbsOf(d, j) > maxAbs
         THEN PeakLoop(d, j + 1, end, MaxAbsOf(d, j), j)
         ELSE PeakLoop(d, j + 1, end, maxAbs, maxIdx)

\* variant: the peak is pushed even when it is the first sample
PushBoth(d, i, maxIdx) == <<At(d, i), At(d, maxIdx)>>

\* result.push(data[i]); if (maxIdx !== i) result.push(data[maxIdx])
Push(d, i, maxIdx) ==
    IF maxIdx # i THEN <<At(d, i), At(d, maxIdx)>> ELSE <<At(d, i)>>

\* for (i = 0; i < len; i += step): the result and the ranges visited
RECURSIVE BucketLoop(_, _, _, _, _)
BucketLoop(d, i, step, result, ranges) ==
    IF i >= Len(d) THEN [result |-> result, ranges |-> ranges]
    ELSE LET end == Min(i + step, Len(d))
             maxIdx == PeakLoop(d, i, end, -1, i)
         IN  BucketLoop(d, i + step, step, result \o Push(d, i, maxIdx),
                        Append(ranges, <<i, end>>))

Decimate(d, target) ==
    LET len == Len(d)
        buckets == target \div 2
        step == Step(len, buckets)
    IN  BucketLoop(d, 0, step, <<>>, <<>>)

downsampleData(d, target) ==
    IF FitsTarget(Len(d), target) THEN d ELSE Decimate(d, target).result

InitDownsample ==
    /\ pc = "downsample"
    /\ dsInput \in DsInputs
    /\ targetCount \in 0..MaxTarget
    /\ dsBuckets = <<>>
    /\ dsResult = <<>>
    /\ dsAgain = <<>>
    /\ fs = SAMPLE_RATE
    /\ NoStats
    /\ NoProcess
    /\ NoFFT
    /\ NoUI

\* one call of downsampleData(dsInput, targetCount)
Downsample ==
    /\ pc = "downsample"
    /\ dsResult' = downsampleData(dsInput, targetCount)
    /\ dsBuckets' = IF FitsTarget(Len(dsInput), targetCount) THEN <<>>
                    ELSE Decimate(dsInput, targetCount).ranges
    /\ pc' = "downsampleDone"
    /\ UNCHANGED <<statsVars, procVars, fs, fftVars, dsInput, targetCount,
                   dsAgain, uiVars>>

\* a second call, on the result of the first, with the same targetCount
DownsampleAgain ==
    /\ pc = "downsampleDone"
    /\ dsAgain' = downsampleData(dsResult, targetCount)
    /\ pc' = "downsampleTwice"
    /\ UNCHANGED <<statsVars, procVars, fs, fftVars, dsInput, targetCount,
                   dsBuckets, dsResult, uiVars>>

NextDownsample == Downsample \/ DownsampleAgain

----------------------------------------------------------------------------
(* parseCSV *)

\* first lines, split at the commas: plain, padded and upper case with the
\* columns in another order, and one without an az column
CsvHeaders ==
    {<<"ax", "ay", "az">>, <<"AZ", " ay", "ax">>, <<"time", "ax", "ay">>}

\* the other lines, split at the commas: a blank line (no cell), a row of
\* numbers, rows with a cell that is not a number, and a row of two cells
CsvRows ==
    {<<>>, <<"1", "2", "3">>, <<"1", "2", "x">>, <<"x", "2", "3">>,
     <<"1", "2">>}

\* h.trim().toLowerCase()
NormalizeHeader(h) ==
    CASE h = "AZ" -> "az"
      [] h = " ay" -> "ay"
      [] OTHER -> h

\* Number(cell) of the cells that are numbers
NumericText == [c \in {"1", "2", "3"} |-> IF c = "1" THEN 1 ELSE
                                          IF c = "2" THEN 2 ELSE 3]

\* headers.indexOf(name)
IndexOf(headers, name) ==
    IF \E i \in DOMAIN headers : headers[i] = name
    THEN (CHOOSE i \in DOMAIN headers :
            /\ headers[i] = name
            /\ \A j \in 1..(i - 1) : headers[j] # name) - 1
    ELSE -1

\* isNaN(values[idx]): a cell that is missing or not a number
IsNaNCell(cells, idx) ==
    idx >= Len(cells) \/ cells[idx + 1] \notin DOMAIN NumericText

\* for (i = 1; i < lines.length; i++), lines[i] being csvLines[i]
RECURSIVE ParseLoop(_, _, _, _, _)
ParseLoop(lines, i, idx, rate, acc) ==
    IF i > Len(lines) THEN acc
    ELSE LET cells == lines[i]
         IN  IF cells = <<>> THEN ParseLoop(lines, i + 1, idx, rate, acc)
             ELSE IF \/ IsNaNCell(cells, idx.ax)
                     \/ IsNaNCell(cells, idx.ay)
                     \/ IsNaNCell(cells, idx.az)
                  THEN ParseLoop(lines, i + 1, idx, rate, acc)
                  ELSE ParseLoop(lines, i + 1, idx, rate,
                          Append(acc,
                              [time |-> Rat(i - 1, rate),
                               ax |-> NumericText[cells[idx.ax + 1]],
                               ay |-> NumericText[cells[idx.ay + 1]],
                               az |-> NumericText[cells[idx.az + 1]]]))

parseCSV(header, lines, rate) ==
    LET headers == [i \in DOMAIN header |-> NormalizeHeader(header[i])]
        idx == [ax |-> IndexOf(headers, "ax"), ay |-> IndexOf(headers, "ay"),
                az |-> IndexOf(headers, "az")]
    IN  IF idx.ax = -1 \/ idx.ay = -1 \/ idx.az = -1
        THEN [thrown |-> TRUE, data |-> <<>>]
        ELSE [thrown |-> FALSE, data |-> ParseLoop(lines, 1, idx, rate, <<>>)]

\* csvText.trim() leaves no blank line at the end of the text
InitCSV ==
    /\ pc = "csv"
    /\ csvHeader \in CsvHeaders
    /\ csvLines \in SeqsUpTo(CsvRows, MaxCsvLines)
    /\ csvLines # <<>> => csvLines[Len(csvLines)] # <<>>
    /\ csvResult = <<>>
    /\ fs \in {4, SAMPLE_RATE}
    /\ NoStats
    /\ NoProcess
    /\ NoFFT
    /\ NoDownsample
    /\ NoChart /\ NoApp /\ NoWindow

ParseCSV ==
    /\ pc = "csv"
    /\ csvResult' = parseCSV(csvHeader, csvLines, fs)
    /\ pc' = "csvDone"
    /\ UNCHANGED <<statsVars, procVars, fs, fftVars, dsVars, csvHeader,
                   csvLines, chartVars, appVars, winVars>>

----------------------------------------------------------------------------
(* The specification: one call of one of the functions on one input *)

Init == InitStats \/ InitProcess \/ InitFFT \/ InitDownsample \/ InitCSV

Next == NextStats \/ Process \/ NextFFT \/ NextDownsample \/ ParseCSV

Spec == Init /\ [][Next]_vars

----------------------------------------------------------------------------
(* App: the data pipeline *)

NoFunctions == NoStats /\ NoProcess /\ NoFFT /\ NoDownsample /\ NoCSV

funVars == <<statsVars, procVars, fs, fftVars, dsVars, csvVars>>

\* the parsed recordings handed to handleFileLoad
AppFiles ==
    {MkPoints(<<<<1, 0, 2>>>>),
     MkPoints(<<<<0, 1, -1>>, <<1, 0, 2>>>>),
     MkPoints(<<<<1, 1, 0>>, <<0, -1, 0>>, <<2, 0, 0>>>>)}

\* the values of the two cut-off inputs
HighPassFreqs == {0, 5}
LowPassFreqs == {10, 30}

FilterConfigs ==
    [enabled : BOOLEAN, highPassFreq : HighPassFreqs,
     lowPassFreq : LowPassFreqs, isStandardWeighting : BOOLEAN,
     targetAxes : {"all", "z-only"}]

\* stand-in for applyFilters of utils/dspUtils: it keeps length and times,
\* leaves ax and ay alone for 'z-only', and scales every sample of a target
\* axis by a factor that differs for every setting of the cut-offs and the
\* weighting
Gain(cfg) ==
    1 + cfg.highPassFreq + (2 * cfg.lowPassFreq)
      + (IF cfg.isStandardWeighting THEN 100 ELSE 0)

applyFilters(raw, rate, cfg) ==
    [i \in DOMAIN raw |->
        [time |-> raw[i].time,
         ax |-> IF cfg.targetAxes = "all" THEN Gain(cfg) * raw[i].ax
                ELSE raw[i].ax,
         ay |-> IF cfg.targetAxes = "all" THEN Gain(cfg) * raw[i].ay
                ELSE raw[i].ay,
         az |-> Gain(cfg) * raw[i].az]]

\* variant: the filter is applied whatever cfg.enabled is
DataToProcessAlways(raw, cfg) == applyFilters(raw, SAMPLE_RATE, cfg)

\* let dataToProcess = rawData; if (filterConfig.enabled) dataToProcess = ...
DataToProcess(raw, cfg) ==
    IF cfg.enabled THEN applyFilters(raw, SAMPLE_RATE, cfg) ELSE raw

\* variant: the pipeline effect depends on rawData alone
PipelineDepsRawOnly(rawChanged, configChanged) == rawChanged

\* the dependency list [rawData, filterConfig] of the pipeline effect
PipelineDeps(rawChanged, configChanged) == rawChanged \/ configChanged

\* the mounted App: both effects run after the first render
InitApp ==
    /\ pc = "app"
    /\ fs = SAMPLE_RATE
    /\ NoFunctions
    /\ NoCSV /\ NoChart /\ NoWindow
    /\ filterConfig = DefaultFilter
    /\ dataToProcess = None
    /\ finalProcessedData = None
    /\ displayData = <<>>
    /\ effects = {"pipeline", "display"}

Idle == pc = "app" /\ effects = {}

appRest == <<pc, statsVars, processed, fs, fftVars, dsVars, csvVars,
             chartVars, winVars>>

\* handleFileLoad: the recording without vz and sz becomes rawData
handleFileLoad ==
    /\ Idle
    /\ \E file \in AppFiles :
          rawData' = Some([i \in DOMAIN file |->
                            [time |-> file[i].time, ax |-> file[i].ax,
                             ay |-> file[i].ay, az |-> file[i].az]])
    /\ effects' = IF PipelineDeps(TRUE, FALSE) THEN {"pipeline"} ELSE {}
    /\ UNCHANGED <<appRest, filterConfig, dataToProcess, finalProcessedData,
                   displayData>>

\* the close button: setRawData(null); setFinalProcessedData(null)
CloseFile ==
    /\ Idle
    /\ rawData' = None
    /\ finalProcessedData' = None
    /\ effects' =
          (IF PipelineDeps(rawData # None, FALSE) THEN {"pipeline"} ELSE {})
            \cup (IF finalProcessedData # None THEN {"display"} ELSE {})
    /\ UNCHANGED <<appRest, filterConfig, dataToProcess, displayData>>

\* the filter inputs: setFilterConfig({...filterConfig, field: value})
SetFilterField ==
    /\ Idle
    /\ \E cfg \in FilterConfigs :
          /\ \E f \in {"enabled", "highPassFreq", "lowPassFreq", "targetAxes"} :
                \A g \in DOMAIN cfg : g # f => cfg[g] = filterConfig[g]
          /\ filterConfig' = cfg
    /\ effects' = IF PipelineDeps(FALSE, TRUE) THEN {"pipeline"} ELSE {}
    /\ UNCHANGED <<appRest, rawData, dataToProcess, finalProcessedData,
                   displayData>>

applyIsoPreset ==
    /\ Idle
    /\ filterConfig' =
          [enabled |-> TRUE, highPassFreq |-> 0, lowPassFreq |-> 10,
           isStandardWeighting |-> TRUE, targetAxes |-> "z-only"]
    /\ effects' = IF PipelineDeps(FALSE, TRUE) THEN {"pipeline"} ELSE {}
    /\ UNCHANGED <<appRest, rawData, dataToProcess, finalProcessedData,
                   displayData>>

resetFilters ==
    /\ Idle
    /\ filterConfig' = DefaultFilter
    /\ effects' = IF PipelineDeps(FALSE, TRUE) THEN {"pipeline"} ELSE {}
    /\ UNCHANGED <<appRest, rawData, dataToProcess, finalProcessedData,
                   displayData>>

\* the effect on [rawData, filterConfig]: filter and integrate
PipelineEffect ==
    /\ pc = "app"
    /\ "pipeline" \in effects
    /\ IF rawData = None
       THEN /\ effects' = effects \ {"pipeline"}
            /\ UNCHANGED <<dataToProcess, finalProcessedData>>
       ELSE /\ dataToProcess' = Some(DataToProcess(rawData[1], filterConfig))
            /\ finalProcessedData' =
                  Some(processVibrationData(
                          DataToProcess(rawData[1], filterConfig), SAMPLE_RATE))
            /\ effects' = (effects \ {"pipeline"}) \cup {"display"}
    /\ UNCHANGED <<appRest, rawData, filterConfig, displayData>>

\* the effect on [finalProcessedData], defined after the pipeline effect
DisplayEffect ==
    /\ pc = "app"
    /\ effects = {"display"}
    /\ displayData' = IF finalProcessedData # None
                      THEN downsampleData(finalProcessedData[1], 8000)
                      ELSE <<>>
    /\ effects' = {}
    /\ UNCHANGED <<appRest, rawData, filterConfig, dataToProcess,
                   finalProcessedData>>

NextApp ==
    \/ handleFileLoad
    \/ CloseFile
    \/ SetFilterField
    \/ applyIsoPreset
    \/ resetFilters
    \/ PipelineEffect
    \/ DisplayEffect

SpecApp == InitApp /\ [][NextApp]_vars

----------------------------------------------------------------------------
(* TimeChart: the drag-to-zoom and click handlers *)

\* e.activeLabel: the time under the pointer (positive), or none
ChartLabels == 1..MaxLabel

InitChart ==
    /\ pc = "chart"
    /\ fs = SAMPLE_RATE
    /\ NoFunctions
    /\ NoUI

\* the button goes down on the chart: handleMouseDown
handleMouseDown ==
    /\ mouse = "up"
    /\ \E activeLabel \in ChartLabels \cup {NoTime} :
          refAreaLeft' = IF activeLabel # NoTime THEN activeLabel
                         ELSE refAreaLeft
    /\ mouse' = "down"
    /\ chartCalls' = <<>>
    /\ UNCHANGED <<pc, funVars, refAreaRight, appVars, winVars>>

\* the pointer moves over the chart, button down or up: handleMouseMove
handleMouseMove ==
    /\ mouse \in {"up", "down"}
    /\ \E activeLabel \in ChartLabels \cup {NoTime} :
          refAreaRight' = IF refAreaLeft # NoTime /\ activeLabel # NoTime
                          THEN activeLabel ELSE refAreaRight
    /\ UNCHANGED <<pc, funVars, refAreaLeft, mouse, chartCalls, appVars, winVars>>

\* App.handleZoom, the onZoom of the chart: the new viewDomain
handleZoom(left, right) ==
    IF left = right THEN viewDomain ELSE <<left, right>>

\* the button goes up on the chart: handleMouseUp (onZoom is given)
handleMouseUp ==
    /\ mouse = "down"
    /\ LET left == Min(refAreaLeft, refAreaRight)
           right == Max(refAreaLeft, refAreaRight)
           zoom == /\ refAreaLeft # NoTime
                   /\ refAreaRight # NoTime
                   /\ right > left
       IN  /\ chartCalls' =
                 IF zoom
                 THEN Append(chartCalls,
                             [fn |-> "onZoom", args |-> <<left, right>>])
                 ELSE chartCalls
           /\ viewDomain' = IF zoom THEN handleZoom(left, right)
                            ELSE viewDomain
    /\ refAreaLeft' = NoTime
    /\ refAreaRight' = NoTime
    /\ mouse' = "released"
    /\ UNCHANGED <<pc, funVars, appVars, windowStart, windowSize, accelAxis,
                   isAnalyzing, aiResult, aiRequest, aiOutcome>>

\* App.resetView
resetView ==
    /\ viewDomain' = <<>>
    /\ UNCHANGED <<pc, funVars, chartVars, appVars, windowStart, windowSize,
                   accelAxis, isAnalyzing, aiResult, aiRequest, aiOutcome>>

\* the click event that the browser sends after the button went up on the
\* chart: onClick, rendered with the state that handleMouseUp has set
onClick ==
    /\ mouse = "released"
    /\ \E activeLabel \in ChartLabels \cup {NoTime} :
          chartCalls' =
              IF refAreaLeft = NoTime /\ activeLabel # NoTime
              THEN Append(chartCalls,
                          [fn |-> "onChartClick", args |-> <<activeLabel>>])
              ELSE chartCalls
    /\ mouse' = "up"
    /\ UNCHANGED <<pc, funVars, refAreaLeft, refAreaRight, appVars,
                   winVars>>

\* the button goes up outside the chart: no handler of the chart runs
ReleaseOutside ==
    /\ mouse = "down"
    /\ mouse' = "up"
    /\ UNCHANGED <<pc, funVars, refAreaLeft, refAreaRight, chartCalls, appVars, winVars>>

NextChart ==
    \/ handleMouseDown
    \/ handleMouseMove
    \/ handleMouseUp
    \/ onClick
    \/ ReleaseOutside
    \/ resetView

SpecChart == InitChart /\ [][NextChart]_vars

----------------------------------------------------------------------------
(* App: the analysis window and the AI advisory request *)

\* calculateStats as one function: the sections in their order
calculateStats(d, a) ==
    IF Len(d) = 0 THEN ZeroStats
    ELSE LET e == ExtractSeries(d, a)
             r == Sqrt(Rat(e.sumSq, Len(d)))
             pairs == PairPeaks(FindPeaks(e.values, d))
             m == MaxPkPk(pairs.pkPkPairs)
         IN  IF a \in {"vz", "sz"}
             THEN [peakVal |-> e.overallMaxAbs,
                   peakTime |-> e.overallMaxPoint.time,
                   rms |-> r,
                   pkPk |-> MaxOf(e.values, 0, At(e.values, 0))
                              - MinOf(e.values, 0, At(e.values, 0)),
                   zeroPk |-> e.overallMaxAbs,
                   a95 |-> e.overallMaxAbs,
                   max0PkPoint |-> e.overallMaxPoint,
                   maxPkPkPair |-> Undefined]
             ELSE IF Len(pairs.pkPkValues) = 0
             THEN NoPairsStats(e.overallMaxAbs, e.overallMaxPoint, r)
             ELSE [peakVal |-> e.overallMaxAbs,
                   peakTime |-> e.overallMaxPoint.time,
                   rms |-> r,
                   pkPk |-> m.maxPkPk,
                   zeroPk |-> e.overallMaxAbs,
                   a95 |-> A95(pairs.pkPkValues),
                   max0PkPoint |-> e.overallMaxPoint,
                   maxPkPkPair |-> m.maxPkPkPair]

\* the accelerations of the recordings: the zero-mean series of up to
\* MaxWinLen samples, an 8-sample square wave and an 8-sample alternation
WindowValues ==
    {vs \in SeqsUpTo({-1, 0, 1}, MaxWinLen) :
        Len(vs) > 0 /\ SumAxis([i \in DOMAIN vs |-> [ax |-> vs[i]]], "ax", 0, 0) = 0}
    \cup {<<1, 1, 1, 1, -1, -1, -1, -1>>, <<1, -1, 1, -1, 1, -1, 1, -1>>}

\* processed recordings: ax as given, the other axes at rest, one tick
\* (1 / SAMPLE_RATE s) between samples
WindowRecordings ==
    {MkPoints([i \in DOMAIN vs |-> <<vs[i], 0, 0>>]) : vs \in WindowValues}

WindowSizes == {1, 2, 4, 8}

\* Array.prototype.slice(start, end)
JsSlice(d, start, end) ==
    LET from == IF start < 0 THEN Max(Len(d) + start, 0)
                ELSE Min(start, Len(d))
        to == IF end < 0 THEN Max(Len(d) + end, 0) ELSE Min(end, Len(d))
    IN  IF from >= to THEN <<>> ELSE SubSeq(d, from + 1, to)

\* the memo currentWindowData; windowStart is in ticks, so
\* Math.floor(windowStart * SAMPLE_RATE) is windowStart itself
currentWindowData ==
    IF finalProcessedData = None THEN <<>>
    ELSE LET startIndex == windowStart
             endIndex == windowStart + (windowSize * SAMPLE_RATE)
         IN  JsSlice(finalProcessedData[1], startIndex,
                     Min(endIndex, Len(finalProcessedData[1])))

\* the sign of (a + b * sqrt 2) / d is positive
QPositive(q) ==
    \/ q[1] > 0 /\ q[2] >= 0
    \/ q[1] >= 0 /\ q[2] > 0
    \/ q[1] > 0 /\ q[2] < 0 /\ q[1] * q[1] > 2 * q[2] * q[2]
    \/ q[1] < 0 /\ q[2] > 0 /\ 2 * q[2] * q[2] > q[1] * q[1]

\* fft.forEach(f => { if (f.magnitude > maxMag) { ... } })
RECURSIVE PeakFreqLoop(_, _, _)
PeakFreqLoop(fft, i, acc) ==
    IF i > Len(fft) THEN acc
    ELSE PeakFreqLoop(fft, i + 1,
            IF QPositive(QSub(fft[i].magnitude.sqrtOf, acc.mag.sqrtOf))
            THEN [freq |-> fft[i].frequency, mag |-> fft[i].magnitude]
            ELSE acc)

\* the memo { fftData, windowStats, peakFreq } of a window that is not empty
WindowAnalysis ==
    LET series == [i \in DOMAIN currentWindowData |->
                      currentWindowData[i][accelAxis]]
        fft == calculateFFT(series, SAMPLE_RATE)
    IN  [fftData |-> fft,
         windowStats |-> calculateStats(currentWindowData, accelAxis),
         peakFreq |-> PeakFreqLoop(fft, 1,
                         [freq |-> RInt(0), mag |-> Sqrt(QInt(0))])]

\* what the prompt of analyzeWithGemini reads of its two arguments
AiRecord ==
    [axis |-> accelAxis,
     rms |-> WindowAnalysis.windowStats.rms,
     peakVal |-> WindowAnalysis.windowStats.peakVal,
     dominantFrequency |-> WindowAnalysis.peakFreq.freq,
     dominantMagnitude |-> WindowAnalysis.peakFreq.mag]

\* how a call of the service can go: an answer that parses, no API key,
\* a failed request, an answer that is not JSON
AiOutcomes == {"ok", "noKey", "requestError", "badJson"}

Fallback ==
    [status |-> "unknown", summary |-> "AI Analysis unavailable.",
     recommendations |-> <<"Check local data manually.">>]

Rejected == [status |-> "rejected", summary |-> "", recommendations |-> <<>>]

\* variant: no catch, a failure rejects the promise
analyzeRejecting(outcome, status) ==
    IF outcome = "ok"
    THEN [status |-> status, summary |-> "parsed", recommendations |-> <<>>]
    ELSE Rejected

\* analyzeWithGemini: the value its promise resolves with
analyzeWithGemini(outcome, status) ==
    IF outcome = "ok"
    THEN [status |-> status, summary |-> "parsed", recommendations |-> <<>>]
    ELSE Fallback

InitWindow ==
    /\ pc = "window"
    /\ fs = SAMPLE_RATE
    /\ NoFunctions
    /\ NoCSV /\ NoChart /\ NoWindow
    /\ filterConfig = DefaultFilter
    /\ dataToProcess = None
    /\ finalProcessedData \in {None} \cup {Some(d) : d \in WindowRecordings}
    /\ displayData = IF finalProcessedData = None THEN <<>>
                     ELSE finalProcessedData[1]
    /\ effects = {}

winRest == <<pc, funVars, chartVars, appVars, viewDomain>>

setWindowSize ==
    /\ windowSize' \in WindowSizes
    /\ UNCHANGED <<winRest, windowStart, accelAxis, isAnalyzing, aiResult,
                   aiRequest, aiOutcome>>

setAccelAxis ==
    /\ accelAxis' \in AccelAxes
    /\ UNCHANGED <<winRest, windowStart, windowSize, isAnalyzing, aiResult,
                   aiRequest, aiOutcome>>

\* handleChartClick(clickedTime), the times being ticks
handleChartClick ==
    /\ finalProcessedData # None
    /\ \E i \in DOMAIN displayData :
          LET clickedTime == displayData[i].time
              d == finalProcessedData[1]
              maxStart == d[Len(d)].time - (windowSize * SAMPLE_RATE)
              newStart == clickedTime - ((windowSize * SAMPLE_RATE) \div 2)
              atLeast0 == IF newStart < 0 THEN 0 ELSE newStart
          IN  windowStart' = IF atLeast0 > maxStart THEN maxStart
                             ELSE atLeast0
    /\ UNCHANGED <<winRest, windowSize, accelAxis, isAnalyzing, aiResult,
                   aiRequest, aiOutcome>>

\* handleRunAI up to the await; the button is disabled while isAnalyzing
handleRunAI ==
    /\ ~isAnalyzing
    /\ Len(currentWindowData) # 0
    /\ isAnalyzing' = TRUE
    /\ aiRequest' = AiRecord
    /\ UNCHANGED <<winRest, windowStart, windowSize, accelAxis, aiResult,
                   aiOutcome>>

\* the promise of analyzeWithGemini settles and handleRunAI goes on; were
\* it rejected, the two calls after the await would not run
AIRespond ==
    /\ aiRequest # Null
    /\ \E outcome \in AiOutcomes, status \in {"safe", "warning", "danger"} :
          LET result == analyzeWithGemini(outcome, status)
          IN  /\ aiOutcome' = outcome
              /\ IF result = Rejected
                 THEN UNCHANGED <<aiResult, isAnalyzing>>
                 ELSE aiResult' = result /\ isAnalyzing' = FALSE
    /\ aiRequest' = Null
    /\ UNCHANGED <<winRest, windowStart, windowSize, accelAxis>>

NextWindow ==
    \/ setWindowSize
    \/ setAccelAxis
    \/ handleChartClick
    \/ handleRunAI
    \/ AIRespond

SpecWindow == InitWindow /\ [][NextWindow]_vars

\* every request to the service is answered or fails
FairSpecWindow == SpecWindow /\ WF_vars(AIRespond)

----------------------------------------------------------------------------
(* Properties of calculateStats on an acceleration axis *)

\* the two sign classes of the zero-crossing rule: 0 is non-negative
NonNeg(v) == v >= 0

Sample(i) == At(data, i)[axis]

\* the state right after the zero-crossing scan, and right after the pairing
PeaksComputed == pc = "peaks" /\ axis \in AccelAxes /\ Len(data) > 0

PairsComputed == pc = "paired" /\ axis \in AccelAxes /\ Len(data) > 0

AccelDone == pc = "statsDone" /\ axis \in AccelAxes /\ Len(data) > 0

\* indices i with a crossing between samples i and i + 1
Crossings ==
    {i \in 0..(Len(data) - 2) : NonNeg(Sample(i)) # NonNeg(Sample(i + 1))}

\* first index of every segment; the segment runs to the next start
SegStarts == {0} \cup {i + 1 : i \in Crossings}

SegEnd(s) ==
    LET later == {t \in SegStarts : t > s}
    IN  IF later = {} THEN Len(data) - 1
        ELSE (CHOOSE t \in later : \A u \in later : t <= u) - 1

KthStart(k) ==
    CHOOSE s \in SegStarts : Cardinality({t \in SegStarts : t < s}) = k - 1

EarliestMaxAbs(s, e) ==
    CHOOSE i \in s..e :
        /\ \A j \in s..e : Abs(Sample(j)) <= Abs(Sample(i))
        /\ \A j \in s..(i - 1) : Abs(Sample(j)) < Abs(Sample(i))

MaxAbsSample ==
    CHOOSE m \in {Abs(Sample(i)) : i \in 0..(Len(data) - 1)} :
        \A i \in 0..(Len(data) - 1) : Abs(Sample(i)) <= m

\* C1: on an acceleration axis the series is cut at the zero crossings
\* (between i and i + 1 exactly when one sample is >= 0 and the other < 0);
\* the segments partition the index range and the k-th local peak is the
\* earliest sample of maximum absolute value of the k-th segment, signed.
C1_Segmentation ==
    PeaksComputed =>
        /\ Len(peaks) = Cardinality(SegStarts)
        /\ \A k \in 1..Len(peaks) :
              LET s == KthStart(k)
                  i == EarliestMaxAbs(s, SegEnd(s))
              IN  /\ peaks[k].idx = i
                  /\ peaks[k].value = Sample(i)
                  /\ peaks[k].abs = Abs(Sample(i))
                  /\ peaks[k].time = At(data, i).time

\* three segments, one of them a sample of exactly 0, and a segment whose
\* maximum absolute value is attained twice
C1_Witness ==
    /\ pc = "peaks"
    /\ Len(peaks) >= 3
    /\ \E k \in 1..Len(peaks) : peaks[k].value = 0
    /\ \E k \in 1..Len(peaks) :
          \E j \in KthStart(k)..SegEnd(KthStart(k)) :
              j # peaks[k].idx /\ Abs(Sample(j)) = peaks[k].abs

\* C2: every two adjacent local peaks of opposite sign class (0 counted as
\* non-negative) are recorded as a pair of value |peak1| + |peak2|, and
\* only adjacent peaks are ever recorded.
C2_AdjacentOppositePaired ==
    PairsComputed =>
        /\ \A k \in 1..(Len(peaks) - 1) :
              NonNeg(peaks[k].value) # NonNeg(peaks[k + 1].value) =>
                  \E j \in DOMAIN pkPkPairs :
                      /\ pkPkPairs[j].p1 = peaks[k]
                      /\ pkPkPairs[j].p2 = peaks[k + 1]
                      /\ pkPkPairs[j].val =
                            Abs(peaks[k].value) + Abs(peaks[k + 1].value)
        /\ \A j \in DOMAIN pkPkPairs :
              \E k \in 1..(Len(peaks) - 1) :
                  pkPkPairs[j].p1 = peaks[k] /\ pkPkPairs[j].p2 = peaks[k + 1]

PointOf(peak) == [time |-> peak.time, value |-> peak.value]

\* C3: with a non-empty pair list, pkPk is the maximum recorded pair value
\* and maxPkPkPair holds the two samples of a recorded adjacent pair that
\* attains it, the earlier one first, with |value1| + |value2| = pkPk.
C3_MaxPkPk ==
    (AccelDone /\ pkPkPairs # <<>>) =>
        LET q == stats.maxPkPkPair
        IN  /\ \E j \in DOMAIN pkPkPairs : pkPkPairs[j].val = stats.pkPk
            /\ \A j \in DOMAIN pkPkPairs : pkPkPairs[j].val <= stats.pkPk
            /\ q # Undefined
            /\ q[1].time < q[2].time
            /\ Abs(q[1].value) + Abs(q[2].value) = stats.pkPk
            /\ \E k \in 1..(Len(peaks) - 1) :
                  /\ q[1] = PointOf(peaks[k])
                  /\ q[2] = PointOf(peaks[k + 1])
                  /\ \E j \in DOMAIN pkPkPairs :
                        pkPkPairs[j].p1 = peaks[k] /\ pkPkPairs[j].p2 = peaks[k + 1]
            /\ \A h \in 1..2 :
                  \E i \in 0..(Len(data) - 1) :
                      At(data, i).time = q[h].time /\ Sample(i) = q[h].value

\* two recorded pairs, the later one the larger
C3_Witness ==
    /\ AccelDone
    /\ Len(pkPkPairs) >= 2
    /\ pkPkPairs[1].val < stats.pkPk

\* C4: zeroPk = peakVal = the maximum absolute sample value, and the sample
\* attaining it is returned as max0PkPoint, whether or not a pair exists.
C4_ZeroPkTracked ==
    AccelDone =>
        /\ stats.zeroPk = MaxAbsSample
        /\ stats.peakVal = MaxAbsSample
        /\ stats.max0PkPoint # Undefined
        /\ Abs(stats.max0PkPoint.value) = stats.zeroPk

\* the recorded pair values, in recording order
PairVals == [j \in DOMAIN pkPkPairs |-> pkPkPairs[j].val]

\* C5: with count >= 1 pair values, a95 is the element at index
\* min(floor(0.95 * count), count - 1) of the values in ascending order:
\* at most that many values are smaller and more than that many are not
\* larger.
C5_A95 ==
    (AccelDone /\ pkPkPairs # <<>>) =>
        LET count == Len(PairVals)
            k == Min((19 * count) \div 20, count - 1)
        IN  /\ stats.a95 \in Int
            /\ Cardinality({j \in 1..count : PairVals[j] < stats.a95}) <= k
            /\ Cardinality({j \in 1..count : PairVals[j] <= stats.a95}) > k

\* more than 20 pairs, so that the index is not the last one, and a pair
\* value above a95
C5_Witness ==
    /\ AccelDone
    /\ Len(pkPkPairs) > 20
    /\ (19 * Len(pkPkPairs)) \div 20 < Len(pkPkPairs) - 1
    /\ \E j \in DOMAIN pkPkPairs : pkPkPairs[j].val > stats.a95

\* C6: with a non-empty pair list, a95 <= pkPk.
C6_A95Bounded ==
    (AccelDone /\ pkPkPairs # <<>>) =>
        /\ stats.a95 \in Int
        /\ stats.a95 <= stats.pkPk

\* a series whose a95 lies strictly below its pkPk
C6_Witness ==
    /\ AccelDone
    /\ pkPkPairs # <<>>
    /\ stats.a95 < stats.pkPk

IsNumber(x) == x \in Int

\* a well-formed root: a rational radicand that is not negative
IsRoot(x) ==
    /\ DOMAIN x = {"sqrtOf"}
    /\ x.sqrtOf[1] \in Nat
    /\ x.sqrtOf[2] \in Nat \ {0}

\* C7: a series of a single sign class (a flat one in particular) yields
\* no pair, and without pairs pkPk = 0 and a95 = 0 while zeroPk and peakVal
\* are the global maximum absolute value and every numeric field is a
\* number.
C7_NoPairs ==
    AccelDone =>
        /\ (\/ \A i \in 0..(Len(data) - 1) : NonNeg(Sample(i))
            \/ \A i \in 0..(Len(data) - 1) : ~NonNeg(Sample(i)))
              => pkPkPairs = <<>>
        /\ pkPkPairs = <<>> =>
              /\ IsNumber(stats.pkPk) /\ stats.pkPk = 0
              /\ IsNumber(stats.a95) /\ stats.a95 = 0
              /\ IsNumber(stats.zeroPk) /\ stats.zeroPk = MaxAbsSample
              /\ IsNumber(stats.peakVal) /\ stats.peakVal = MaxAbsSample
              /\ IsNumber(stats.peakTime)
              /\ IsRoot(stats.rms)

\* a single-sign series that is not flat, and so has a positive zeroPk
C7_Witness ==
    /\ AccelDone
    /\ pkPkPairs = <<>>
    /\ \A i \in 0..(Len(data) - 1) : ~NonNeg(Sample(i))
    /\ \E i, j \in 0..(Len(data) - 1) : Sample(i) # Sample(j)
    /\ stats.zeroPk > 0

----------------------------------------------------------------------------
(* Degenerate inputs *)

\* C8: calculateStats on an empty series returns 0 for peakVal, peakTime,
\* rms, pkPk, zeroPk and a95 on every axis, and calculateFFT on fewer than
\* 2 samples returns an empty spectrum at every sample rate.
C8_DegenerateInputs ==
    /\ (pc = "statsDone" /\ Len(data) = 0) =>
          \A f \in {"peakVal", "peakTime", "rms", "pkPk", "zeroPk", "a95"} :
              stats[f] = 0
    /\ (pc = "fftDone" /\ Len(fftInput) < 2) => fftResult = <<>>

\* the spectrum of a single non-zero sample
C8_Witness ==
    /\ pc = "fftDone"
    /\ Len(fftInput) = 1
    /\ fftInput[1] # 0
    /\ fftResult = <<>>

----------------------------------------------------------------------------
(* Properties of processVibrationData *)

\* C9: the output has the length of the input and the i-th output sample
\* has the time of the i-th input sample; for a non-empty input vz[0] = 0
\* and sz[0] = 0.
C9_ProcessShape ==
    pc = "processDone" =>
        /\ Len(processed) = Len(rawData)
        /\ \A i \in 1..Len(rawData) : processed[i].time = rawData[i].time
        /\ Len(rawData) > 0 =>
              processed[1].vz = RZero /\ processed[1].sz = RZero

\* three samples that start moving: the integration constants are 0 and
\* the next displacement is not
C9_Witness ==
    /\ pc = "processDone"
    /\ Len(processed) = 3
    /\ processed[3].time = rawData[3].time
    /\ processed[1].vz = RZero
    /\ processed[1].sz = RZero
    /\ processed[2].sz # RZero

\* the input with other values on the x and y axes
OtherXY(raw) ==
    [i \in 1..Len(raw) |->
        [raw[i] EXCEPT !.ax = raw[i].ax + 5, !.ay = 3 - raw[i].ay]]

\* C10: for i >= 1, vz[i] = vz[i-1] + 0.5 * (a[i-1] + a[i]) * dt and
\* sz[i] = sz[i-1] + 0.5 * (vz[i-1] + vz[i]) * dt with
\* a[i] = (az[i] - mean(az)) / 100 and dt = 1 / sampleRate; an input that
\* differs in ax and ay only gives the same vz and sz.
C10_Trapezoid ==
    pc = "processDone" =>
        LET n == Len(rawData)
            total == SumAxis(rawData, "az", 0, 0)
            a(i) == Rat(n * rawData[i].az - total, 100 * n)
            half == Rat(1, 2)
            dt == Rat(1, fs)
            other == processVibrationData(OtherXY(rawData), fs)
        IN  /\ \A i \in 2..n :
                  /\ processed[i].vz =
                        RAdd(processed[i - 1].vz,
                             RMul(half, RMul(RAdd(a(i - 1), a(i)), dt)))
                  /\ processed[i].sz =
                        RAdd(processed[i - 1].sz,
                             RMul(half, RMul(RAdd(processed[i - 1].vz,
                                                  processed[i].vz), dt)))
            /\ \A i \in 1..n :
                  other[i].vz = processed[i].vz /\ other[i].sz = processed[i].sz

\* three samples with a velocity and a displacement that are not 0
C10_Witness ==
    /\ pc = "processDone"
    /\ Len(processed) = 3
    /\ processed[2].vz # RZero
    /\ processed[3].vz # processed[2].vz
    /\ processed[3].sz # RZero

\* the sum of the rationals f[1] .. f[n]
RECURSIVE RSum(_, _)
RSum(f, n) == IF n = 0 THEN RZero ELSE RAdd(RSum(f, n - 1), f[n])

\* C11: for a non-empty input each output axis ax, ay, az is the input value
\* minus the arithmetic mean of that axis over the whole series, and the sum
\* of each output axis is 0.
C11_DCRemoval ==
    (pc = "processDone" /\ Len(rawData) > 0) =>
        \A a \in AccelAxes :
            LET n == Len(rawData)
                total == SumAxis(rawData, a, 0, 0)
            IN  /\ \A i \in 1..n :
                      processed[i][a] = Rat(n * rawData[i][a] - total, n)
                /\ RSum([i \in 1..n |-> processed[i][a]], n) = RZero

\* three samples whose az has a mean that is not an integer, and an x axis
\* that is not constant
C11_Witness ==
    /\ pc = "processDone"
    /\ Len(processed) = 3
    /\ SumAxis(rawData, "az", 0, 0) % 3 # 0
    /\ processed[1].az # RInt(rawData[1].az)
    /\ processed[1].ax # processed[2].ax

----------------------------------------------------------------------------
(* Properties of calculateFFT *)

\* the largest power of two that is at most n, for 1 <= n < 16
UsedLength(n) == CHOOSE N \in {1, 2, 4, 8} : N <= n /\ n < 2 * N

\* C12: only the first N = 2^floor(log2(n)) samples are used: the spectrum
\* of an input is the spectrum of its first N samples alone, and every input
\* of the same length with the same first N samples has the same spectrum.
C12_Truncation ==
    (pc = "fftDone" /\ Len(fftInput) >= 1) =>
        LET N == UsedLength(Len(fftInput))
        IN  /\ fftResult = calculateFFT(SubSeq(fftInput, 1, N), fs)
            /\ \A other \in FFTInputs :
                  (/\ Len(other) = Len(fftInput)
                   /\ SubSeq(other, 1, N) = SubSeq(fftInput, 1, N))
                      => calculateFFT(other, fs) = fftResult

\* seven samples, of which four are used, with a spectrum that is not
\* empty and a tail that differs from the head
C12_Witness ==
    /\ pc = "fftDone"
    /\ Len(fftInput) = 7
    /\ fftResult # <<>>
    /\ SubSeq(fftInput, 5, 7) # SubSeq(fftInput, 1, 3)

\* C13: every returned point has frequency i * sampleRate / N for a bin
\* index i >= 1 below N / 2 and lies in 1 <= frequency <= 200; the DC bin
\* is never returned and the frequencies increase strictly.
C13_Band ==
    (pc = "fftDone" /\ Len(fftInput) >= 1) =>
        LET N == UsedLength(Len(fftInput))
        IN  /\ \A j \in DOMAIN fftResult :
                  LET f == fftResult[j].frequency
                  IN  /\ f[2] > 0
                      /\ f[1] >= f[2]
                      /\ f[1] <= 200 * f[2]
                      /\ \E i \in 1..N : 2 * i < N /\ f[1] * N = i * fs * f[2]
            /\ \A j \in 1..(Len(fftResult) - 1) :
                  fftResult[j].frequency[1] * fftResult[j + 1].frequency[2]
                    < fftResult[j + 1].frequency[1] * fftResult[j].frequency[2]

\* at 1600 Hz the 8-point transform returns the bin at the upper edge
C13_Witness ==
    /\ pc = "fftDone"
    /\ fs = SAMPLE_RATE
    /\ Len(fftResult) = 1
    /\ fftResult[1].frequency = RInt(200)

\* exp(-2 * pi * i * m / 8) for m = 0 .. 7, as <<real part, imaginary part>>
Root8(m) ==
    LET h == <<0, 1, 2>>
    IN  CASE m = 0 -> <<QInt(1), QInt(0)>>
          [] m = 1 -> <<h, QNeg(h)>>
          [] m = 2 -> <<QInt(0), QInt(-1)>>
          [] m = 3 -> <<QNeg(h), QNeg(h)>>
          [] m = 4 -> <<QInt(-1), QInt(0)>>
          [] m = 5 -> <<QNeg(h), h>>
          [] m = 6 -> <<QInt(0), QInt(1)>>
          [] m = 7 -> <<h, h>>

\* sum over j = 0 .. n - 1 of x[j] * exp(-2 * pi * i * j * k / N), part c
RECURSIVE DFTSum(_, _, _, _, _)
DFTSum(x, k, N, n, c) ==
    IF n = 0 THEN QInt(0)
    ELSE QAdd(DFTSum(x, k, N, n - 1, c),
              QMul(QInt(x[n]), Root8((((n - 1) * k) % N) * (8 \div N))[c]))

\* C14: for a power-of-two length N the bins after the butterfly stages are
\* those of the reference DFT of the first N samples, and every returned
\* magnitude is 2 * |X[k]| / N for its bin k > 0.
C14_DFT ==
    (pc \in {"transformed", "fftDone"} /\ Len(fftInput) >= 1) =>
        LET N == UsedLength(Len(fftInput))
            re(k) == DFTSum(fftInput, k, N, N, 1)
            im(k) == DFTSum(fftInput, k, N, N, 2)
        IN  /\ Len(real) = N /\ Len(imag) = N
            /\ \A k \in 0..(N - 1) :
                  At(real, k) = re(k) /\ At(imag, k) = im(k)
            /\ \A j \in DOMAIN fftResult :
                  \E k \in 1..(N - 1) :
                      /\ fftResult[j].frequency = Rat(k * fs, N)
                      /\ fftResult[j].magnitude =
                            Sqrt(QMul(QAdd(QMul(re(k), re(k)),
                                           QMul(im(k), im(k))),
                                      <<4, 0, N * N>>))

\* an 8-point transform with an irrational bin and a returned magnitude
C14_Witness ==
    /\ pc = "fftDone"
    /\ Len(real) = 8
    /\ \E k \in 1..8 : real[k][2] # 0
    /\ fftResult # <<>>
    /\ \E j \in DOMAIN fftResult : fftResult[j].magnitude # Sqrt(QInt(0))

----------------------------------------------------------------------------
(* Properties of downsampleData *)

DsDone == pc \in {"downsampleDone", "downsampleTwice"}

\* the series is longer than the target, so the bucket loop has run
Decimated == DsDone /\ Len(dsInput) > targetCount

\* C15: a series no longer than targetCount is returned unchanged, and so
\* is the result when it is given to the function again.
C15_NoOp ==
    (DsDone /\ Len(dsInput) <= targetCount) =>
        /\ dsResult = dsInput
        /\ dsBuckets = <<>>
        /\ pc = "downsampleTwice" => dsAgain = dsInput

\* a series exactly as long as the target whose second sample is neither a
\* bucket's first sample nor its peak
C15_Witness ==
    /\ pc = "downsampleDone"
    /\ Len(dsInput) = 4
    /\ targetCount = 4
    /\ MaxAbsOf(dsInput, 0) > MaxAbsOf(dsInput, 1)
    /\ Len(dsResult) = 4

\* C16: for targetCount >= 2, downsampling the result again with the same
\* targetCount returns at most targetCount samples.
C16_ReDownsampleBounded ==
    (pc = "downsampleTwice" /\ targetCount >= 2) =>
        Len(dsAgain) <= targetCount

\* C17: for a series longer than targetCount >= 2 the loop visits exactly
\* floor(targetCount / 2) consecutive buckets that cover the series, each of
\* floor(length / buckets) samples except possibly the last.
C17_BucketPartition ==
    (Decimated /\ targetCount >= 2) =>
        LET len == Len(dsInput)
            buckets == targetCount \div 2
            size == len \div buckets
        IN  /\ Len(dsBuckets) = buckets
            /\ dsBuckets[1][1] = 0
            /\ dsBuckets[Len(dsBuckets)][2] = len
            /\ \A k \in 1..(Len(dsBuckets) - 1) :
                  /\ dsBuckets[k + 1][1] = dsBuckets[k][2]
                  /\ dsBuckets[k][2] - dsBuckets[k][1] = size

\* the earliest sample of data[i .. end - 1] with the largest
\* max(|ax|, |ay|, |az|)
EarliestPeak(i, end) ==
    CHOOSE j \in i..(end - 1) :
        \A k \in i..(end - 1) :
            /\ k < j => MaxAbsOf(dsInput, k) < MaxAbsOf(dsInput, j)
            /\ k > j => MaxAbsOf(dsInput, k) <= MaxAbsOf(dsInput, j)

\* what the first k buckets contribute to the output
RECURSIVE Emitted(_)
Emitted(k) ==
    IF k = 0 THEN <<>>
    ELSE LET i == dsBuckets[k][1]
             peak == EarliestPeak(i, dsBuckets[k][2])
         IN  Emitted(k - 1) \o <<At(dsInput, i)>>
                 \o (IF peak # i THEN <<At(dsInput, peak)>> ELSE <<>>)

\* C18: the output of a decimation is, bucket after bucket, the bucket's
\* first sample followed, only if it is a different sample, by the earliest
\* sample of the bucket with the largest max(|ax|, |ay|, |az|); every
\* output element is an input sample.
C18_BucketOutput ==
    Decimated =>
        /\ dsResult = Emitted(Len(dsBuckets))
        /\ \A j \in DOMAIN dsResult : \E i \in DOMAIN dsInput :
              dsResult[j] = dsInput[i]

\* a bucket with two equal peaks after its first sample, and a bucket
\* whose first sample is its peak
C18_Witness ==
    /\ pc = "downsampleDone"
    /\ Len(dsInput) > targetCount
    /\ \E k \in DOMAIN dsBuckets :
          LET i == dsBuckets[k][1]
          IN  /\ dsBuckets[k][2] = i + 3
              /\ MaxAbsOf(dsInput, i) < MaxAbsOf(dsInput, i + 1)
              /\ MaxAbsOf(dsInput, i + 1) = MaxAbsOf(dsInput, i + 2)
    /\ \E k \in DOMAIN dsBuckets :
          EarliestPeak(dsBuckets[k][1], dsBuckets[k][2]) = dsBuckets[k][1]

\* C19: the output is time-ascending: the input index (the tick) of an
\* output element is never below that of an earlier one, and the same input
\* sample is returned twice only from a bucket of size 1.
C19_TimeAscending ==
    DsDone =>
        \A j, k \in DOMAIN dsResult :
            j < k =>
                /\ dsResult[j].time <= dsResult[k].time
                /\ dsResult[j].time = dsResult[k].time =>
                      \E b \in DOMAIN dsBuckets :
                          /\ dsBuckets[b][1] = dsResult[j].time
                          /\ dsBuckets[b][2] = dsResult[j].time + 1

\* a decimation with a bucket of several samples whose first sample is its
\* peak, next to a bucket that returns two samples
C19_Witness ==
    /\ pc = "downsampleDone"
    /\ Len(dsInput) > targetCount
    /\ Len(dsResult) = 3
    /\ \E b \in DOMAIN dsBuckets :
          /\ dsBuckets[b][2] - dsBuckets[b][1] >= 2
          /\ EarliestPeak(dsBuckets[b][1], dsBuckets[b][2]) = dsBuckets[b][1]

\* C20: for each of ax, ay and az a sample attaining the largest absolute
\* value of the series on that axis is an element of the output.
C20_AxisPeaksKept ==
    (DsDone /\ Len(dsInput) > 0) =>
        \A a \in AccelAxes :
            \E j \in DOMAIN dsResult :
                \A i \in DOMAIN dsInput :
                    Abs(dsInput[i][a]) <= Abs(dsResult[j][a])

----------------------------------------------------------------------------
(* Further properties of calculateStats *)

StatsDone == pc = "statsDone" /\ Len(data) > 0

\* C24: on vz and sz, pkPk = max - min of the series, zeroPk = max |value|
\* and a95 = peakVal = zeroPk; no zero-crossing peak or pair is computed.
C24_Kinematic ==
    (StatsDone /\ axis \in {"vz", "sz"}) =>
        LET idx == 0..(Len(data) - 1)
        IN  /\ \E i, j \in idx :
                  /\ \A k \in idx : Sample(j) <= Sample(k) /\ Sample(k) <= Sample(i)
                  /\ stats.pkPk = Sample(i) - Sample(j)
            /\ stats.zeroPk = MaxAbsSample
            /\ stats.a95 = stats.zeroPk
            /\ stats.peakVal = stats.zeroPk
            /\ peaks = <<>> /\ pkPkValues = <<>> /\ pkPkPairs = <<>>
            /\ stats.maxPkPkPair = Undefined

\* a velocity series whose minimum is not its first value and whose pkPk
\* differs from twice the zeroPk
C24_Witness ==
    /\ StatsDone
    /\ axis = "vz"
    /\ Len(data) = 3
    /\ Sample(0) = 1 /\ Sample(1) = -2 /\ Sample(2) = 0
    /\ stats.pkPk = 3
    /\ stats.a95 = 2

\* C29: on every series and axis 0 <= pkPk <= 2 * zeroPk and
\* zeroPk = peakVal >= 0.
C29_StatsBounds ==
    pc = "statsDone" =>
        /\ 0 <= stats.pkPk
        /\ stats.pkPk <= 2 * stats.zeroPk
        /\ stats.zeroPk = stats.peakVal
        /\ stats.peakVal >= 0

\* an acceleration series with a pair, a negative global peak and a pkPk
\* strictly between 0 and twice the zeroPk
C29_Witness ==
    /\ StatsDone
    /\ axis = "az"
    /\ pkPkPairs # <<>>
    /\ overallMaxPoint.value < 0
    /\ 0 < stats.pkPk
    /\ stats.pkPk < 2 * stats.zeroPk

\* C30: for a non-empty series peakTime (and max0PkPoint.time, when the
\* point is returned) is the time of the earliest sample of the series whose
\* absolute value equals peakVal, wherever the series starts.
C30_PeakTimeInSeries ==
    StatsDone =>
        LET i == EarliestMaxAbs(0, Len(data) - 1)
        IN  /\ Abs(Sample(i)) = stats.peakVal
            /\ stats.peakTime = At(data, i).time
            /\ stats.max0PkPoint # Undefined =>
                  stats.max0PkPoint.time = At(data, i).time

----------------------------------------------------------------------------
(* Properties of parseCSV *)

\* C23: the samples returned for a text with ax, ay and az columns have
\* non-decreasing times and the sample at index k has time k / sampleRate.
C23_IndexIsTime ==
    (pc = "csvDone" /\ ~csvResult.thrown) =>
        LET d == csvResult.data
        IN  /\ \A k \in 1..(Len(d) - 1) : RLeq(d[k].time, d[k + 1].time)
            /\ \A k \in 0..(Len(d) - 1) : At(d, k).time = Rat(k, fs)

----------------------------------------------------------------------------
(* Properties of TimeChart *)

\* C26: a gesture whose mouseUp called onZoom(left, right), always with
\* left < right, is not followed by a call of onChartClick for the click
\* that ends the gesture, and after mouseUp the drag selection is cleared.
C26_NoClickAfterDrag ==
    pc = "chart" =>
        /\ \A i \in DOMAIN chartCalls :
              chartCalls[i].fn = "onZoom" =>
                  /\ chartCalls[i].args[1] < chartCalls[i].args[2]
                  /\ \A j \in DOMAIN chartCalls :
                        j > i => chartCalls[j].fn # "onChartClick"
        /\ mouse = "released" => refAreaLeft = NoTime /\ refAreaRight = NoTime

----------------------------------------------------------------------------
(* Properties of the App pipeline *)

\* C21: with filterConfig.enabled false the series handed to
\* processVibrationData is the raw series, sample by sample and field by
\* field, whatever the other fields of the FilterConfig are.
C21_DisabledIsIdentity ==
    (pc = "app" /\ "pipeline" \notin effects /\ rawData # None
       /\ ~filterConfig.enabled) =>
        /\ dataToProcess # None
        /\ Len(dataToProcess[1]) = Len(rawData[1])
        /\ \A i \in DOMAIN rawData[1] :
              \A f \in {"time", "ax", "ay", "az"} :
                  dataToProcess[1][i][f] = rawData[1][i][f]

\* the filter switched off with the other fields as the preset left them
C21_Witness ==
    /\ Idle
    /\ rawData # None
    /\ Len(rawData[1]) = 2
    /\ ~filterConfig.enabled
    /\ filterConfig.isStandardWeighting
    /\ filterConfig.lowPassFreq = 10
    /\ filterConfig.highPassFreq = 5
    /\ filterConfig.targetAxes = "z-only"
    /\ dataToProcess = rawData

\* C22: once the pending effects have run, with a file loaded
\* finalProcessedData is processVibrationData of the raw series filtered
\* under the current filterConfig and displayData is its downsampling to
\* 8000; with no file, finalProcessedData is null and displayData is empty.
C22_FullyRederived ==
    Idle =>
        IF rawData # None
        THEN LET input == IF filterConfig.enabled
                          THEN applyFilters(rawData[1], SAMPLE_RATE,
                                            filterConfig)
                          ELSE rawData[1]
             IN  /\ finalProcessedData =
                       Some(processVibrationData(input, SAMPLE_RATE))
                 /\ displayData = downsampleData(finalProcessedData[1], 8000)
        ELSE finalProcessedData = None /\ displayData = <<>>

\* a loaded file whose filtered result differs from the unfiltered one
C22_Witness ==
    /\ Idle
    /\ rawData # None
    /\ filterConfig.enabled
    /\ filterConfig.targetAxes = "all"
    /\ finalProcessedData # Some(processVibrationData(rawData[1], SAMPLE_RATE))
    /\ displayData # <<>>

----------------------------------------------------------------------------
(* Properties of the analysis window and of the AI request *)

\* the selected axis over the current window
WindowSeries ==
    [i \in DOMAIN currentWindowData |-> currentWindowData[i][accelAxis]]

Squares == [i \in DOMAIN WindowSeries |-> [ax |-> WindowSeries[i] * WindowSeries[i]]]

\* C25: the record of a request is built from the current window and the
\* selected axis: the window is not empty, rms and peakVal are those of the
\* window on that axis, and the dominant frequency and magnitude are those
\* of the earliest point of largest magnitude in the spectrum of the window.
C25_RecordFromWindow ==
    [][(aiRequest = Null /\ aiRequest' # Null) =>
          LET n == Len(WindowSeries)
              fft == calculateFFT(WindowSeries, SAMPLE_RATE)
              bigger(j, k) == QPositive(QSub(fft[j].magnitude.sqrtOf,
                                             fft[k].magnitude.sqrtOf))
          IN  /\ n > 0
              /\ aiRequest'.axis = accelAxis
              /\ aiRequest'.rms = Sqrt(Rat(SumAxis(Squares, "ax", 0, 0), n))
              /\ \E i \in 1..n :
                    /\ aiRequest'.peakVal = Abs(WindowSeries[i])
                    /\ \A k \in 1..n : Abs(WindowSeries[k]) <= Abs(WindowSeries[i])
              /\ \E j \in DOMAIN fft :
                    /\ \A k \in DOMAIN fft : ~bigger(k, j)
                    /\ \A k \in 1..(j - 1) : bigger(j, k)
                    /\ aiRequest'.dominantFrequency = fft[j].frequency
                    /\ aiRequest'.dominantMagnitude = fft[j].magnitude]_vars

\* C27: with a recording loaded, windowStart is never negative, whatever
\* the recording length, the window size and the time clicked.
C27_WindowStartNonNegative ==
    (pc = "window" /\ finalProcessedData # None) => windowStart >= 0

====
